---- MODULE Spec2Model ----
(***************************************************************************)
(* A model of the inspeqtor daemon: the scan loop (runLoop, scanSystem,    *)
(* trust, verify, silenced), the rule engine it drives, the control        *)
(* endpoint's silence command, global configuration loading (ParseGlobal)  *)
(* and the notification test (TestNotifications).                          *)
(***************************************************************************)
EXTENDS Integers, Sequences, FiniteSets, TLC

\* ------------------------------------------------------------------ bounds
NumServices == 1          \* len(i.Services) is 0..NumServices
MaxTime == 3              \* the clock runs 0..MaxTime (seconds)
MaxScans == 3             \* scanSystem calls explored per run
MaxCyclesRequired == 2    \* CyclesRequired of a rule is 1..MaxCyclesRequired
MaxRoutes == 2            \* alert routes in a configuration file: 0..MaxRoutes
DeployLength == 2         \* the loaded GlobalConfig.Top.DeployLength (seconds)
CycleTime == 1            \* the loaded GlobalConfig.Top.CycleTime (seconds)

\* ------------------------------------------------------- program constants
DefaultCycleTime == 15
DefaultDeployLength == 300
Threshold == 64           \* the rule threshold of the end-to-end scenario (MiB)

\* --------------------------------------------------------------- entities
Host == 0
SampleValues == {30, 70}

VARIABLES
    Services,      \* i.Services, the configured sequence of Services
    main,          \* Start(): "new", "running" or "exited"
    Socket,        \* i.Socket is open
    pc,            \* position of the runLoop goroutine
    idx,           \* index of the loop runLoop/trust/verify is in
    resolved,      \* Services on which Resolve has been called
    barrier,       \* the sync.WaitGroup counter of the running trust()
    collect,       \* per Checkable: state of its Collect goroutine
    sample,        \* per Checkable: latest collected sample
    rules,         \* per Checkable: its Rules (configuration, State, breach counter)
    mode,          \* the branch verify() took: "reset", "verify" or "none"
    now,           \* time.Now()
    SilenceUntil,  \* i.SilenceUntil
    GlobalConfig,  \* i.GlobalConfig: Top and AlertRoutes
    timerStart,    \* when the pending time.After was created
    scans,         \* history: scanSystem calls started
    waits,         \* history: timers that have fired
    trustReturns,  \* history: returns of trust()
    verifyReturns, \* history: returns of verify()
    collectedIn,   \* history: per Checkable, the scan its last callback ran in
    streak,        \* history: per rule, consecutive breaching evaluations observed
    emitted,       \* history: events emitted so far in the running verify()
    phaseLog,      \* history: Verify/Reset calls made so far in the running verify()
    silencedAt,    \* history: time of the latest enter-silence command, -1 if none
    cmdPhase,      \* history: the verify() during which the latest command ran:
                   \* "this" (the latest begun), "previous" (the one before), else "none"
    elapsed,       \* history: seconds the running (or last) scan has taken, up to CycleTime
    prevOverran,   \* history: the scan before the running one took CycleTime or longer
    parseIn,       \* ParseGlobal: the file's status and its parsed ast.Config
    parseOut,      \* ParseGlobal: what the call returned, Nil before it returns
    pending,       \* TestNotifications: routes the range loop has yet to visit
    notifyLog,     \* TestNotifications: per route, what was attempted and how it ended
    notifyPc,      \* TestNotifications: "off", "loop", "returned" or "panic"
    SilenceUntilWords, \* the machine words of i.SilenceUntil in memory
    storing,       \* accept goroutine: the assignment to i.SilenceUntil in progress
    loading,       \* scan goroutine: the words silenced() has loaded so far
    observed,      \* the time.Time the latest silenced() read, Nil before the first
    written        \* history: the times assigned to i.SilenceUntil so far

vars == <<Services, main, Socket, pc, idx, resolved, barrier, collect, sample, rules, mode,
          now, SilenceUntil, GlobalConfig, timerStart, scans, waits, trustReturns,
          verifyReturns, collectedIn, streak, emitted, phaseLog, silencedAt,
          cmdPhase, elapsed, prevOverran, parseIn, parseOut, pending, notifyLog, notifyPc,
          SilenceUntilWords, storing, loading, observed, written>>

\* A nil pointer, map or error is the empty sequence; a value x behind a
\* pointer (or a non-nil map or error) is <<x>>.
Nil == << >>
Some(x) == <<x>>

\* i.Host and the elements of i.Services.
Checkables == {Host} \cup {Services[k] : k \in 1..Len(Services)}

\* ------------------------------------------------------------ rule engine
\* The rules a configuration may give a Checkable. The Host's rule is the
\* scenario's "rss > 64MiB" with any cycle count, with or without recovery
\* notification; a Service's rule alerts on a value below the threshold after
\* MaxCyclesRequired cycles and notifies no recovery.
RuleConfigs(c) ==
    IF c = Host
    THEN [Comparison : {"GT"}, CyclesRequired : 1..MaxCyclesRequired,
          NotifyRecovery : BOOLEAN]
    ELSE [Comparison : {"LT"}, CyclesRequired : {MaxCyclesRequired},
          NotifyRecovery : {FALSE}]

\* A Rule that has never been evaluated is Ok with a zero breach counter.
NewRule(cfg) ==
    [Comparison |-> cfg.Comparison, CyclesRequired |-> cfg.CyclesRequired,
     NotifyRecovery |-> cfg.NotifyRecovery, State |-> "Ok", count |-> 0]

\* The comparison of the latest sample against the threshold.
Breach(rule, v) ==
    CASE rule.Comparison = "GT" -> v > Threshold
      [] rule.Comparison = "LT" -> v < Threshold
      [] OTHER -> v = Threshold

\* A Check that emits the recovery event on every non-breaching evaluation.
CheckReemits(rule, v) ==
    IF Breach(rule, v)
    THEN LET n == rule.count + 1 IN
         IF n >= rule.CyclesRequired /\ rule.State # "Failed"
         THEN [rule |-> [rule EXCEPT !.State = "Failed", !.count = 0],
               event |-> "RuleFailed"]
         ELSE [rule |-> [rule EXCEPT !.count = n], event |-> "none"]
    ELSE [rule |-> [rule EXCEPT !.State = "Ok", !.count = 0],
          event |-> IF rule.NotifyRecovery THEN "RuleRecovered" ELSE "none"]

\* One evaluation of one rule: the rule afterwards and the event it emits.
Check(rule, v) ==
    IF Breach(rule, v)
    THEN LET n == rule.count + 1 IN
         IF n >= rule.CyclesRequired /\ rule.State # "Failed"
         THEN [rule |-> [rule EXCEPT !.State = "Failed", !.count = 0],
               event |-> "RuleFailed"]
         ELSE [rule |-> [rule EXCEPT !.count = n], event |-> "none"]
    ELSE IF rule.State = "Failed"
         THEN [rule |-> [rule EXCEPT !.State = "Ok", !.count = 0],
               event |-> IF rule.NotifyRecovery THEN "RuleRecovered" ELSE "none"]
         ELSE [rule |-> [rule EXCEPT !.count = 0], event |-> "none"]

\* rule.Reset(): zero the breach counter, leave State alone, emit nothing.
Reset(rule) == [rule EXCEPT !.count = 0]

\* The events a sequence of Check results emits, in rule order.
EventsOf(c, rs, v) ==
    LET all == [k \in 1..Len(rs) |->
                    [Type |-> Check(rs[k], v).event, Subject |-> c, Rule |-> k]]
    IN  SelectSeq(all, LAMBDA e : e.Type # "none")

\* Checkable.Verify(): every rule of the Checkable is checked once, in order.
Verify(c, rs, v) ==
    [rules |-> [k \in 1..Len(rs) |-> Check(rs[k], v).rule],
     events |-> EventsOf(c, rs, v)]

\* ------------------------------------------------------------ the daemon
\* A silenced() that still holds at SilenceUntil itself.
silencedInclusive == now <= SilenceUntil

\* Inspeqtor.silenced
silenced == now < SilenceUntil

\* Loops that visit the Services first and the Host last.
CheckableAtHostLast(k) == IF k = Len(Services) THEN Host ELSE Services[k + 1]

\* The Checkable the loops of trust() and verify() visit at position k:
\* the Host first, then i.Services in order.
CheckableAt(k) == IF k = 0 THEN Host ELSE Services[k]

\* A trust() that forgets barrier.Add(1) for the Host.
trustAddServicesOnly == Len(Services)

\* A trust() that adds the Host to the barrier twice.
trustAddHostTwice == 2 + Len(Services)

\* trust(): barrier.Add(1); barrier.Add(len(i.Services)) on a fresh WaitGroup.
trustAdd == 1 + Len(Services)

\* A Wait() that returns while one callback is still outstanding.
barrierWaitEarly == barrier <= 1

\* trust(): barrier.Wait() returns when the counter is zero.
barrierWait == barrier = 0

\* A timer that fires as soon as it is created.
timerFiredAtOnce == now >= timerStart

\* runLoop: the channel of time.After(CycleTime seconds), created at
\* timerStart, has delivered.
timerFired == now >= timerStart + GlobalConfig.Top.CycleTime

\* A Resolve loop that stops one Service short.
resolveLoopDoneEarly == idx >= Len(Services)

\* runLoop: the Resolve loop over i.Services has visited every Service.
resolveLoopDone == idx > Len(Services)

\* A verify() whose else branch calls Verify twice on each Checkable.
verifyBodyTwice(c, m) ==
    IF m = "reset"
    THEN [rules |-> [k \in 1..Len(rules[c]) |-> Reset(rules[c][k])],
          events |-> << >>, op |-> "Reset"]
    ELSE LET first == Verify(c, rules[c], sample[c])
             second == Verify(c, first.rules, sample[c])
         IN  [rules |-> second.rules, events |-> first.events \o second.events,
              op |-> "Verify"]

\* A verify() whose silenced branch forgets the loop over i.Services.
verifyBodyHostOnly(c, m) ==
    IF m = "reset"
    THEN IF c = Host
         THEN [rules |-> [k \in 1..Len(rules[c]) |-> Reset(rules[c][k])],
               events |-> << >>, op |-> "Reset"]
         ELSE [rules |-> rules[c], events |-> << >>, op |-> "Skip"]
    ELSE [rules |-> Verify(c, rules[c], sample[c]).rules,
          events |-> Verify(c, rules[c], sample[c]).events, op |-> "Verify"]

\* A verify() that calls silenced() again for each Checkable.
verifyBodyRereads(c, m) ==
    IF silenced
    THEN [rules |-> [k \in 1..Len(rules[c]) |-> Reset(rules[c][k])],
          events |-> << >>, op |-> "Reset"]
    ELSE [rules |-> Verify(c, rules[c], sample[c]).rules,
          events |-> Verify(c, rules[c], sample[c]).events, op |-> "Verify"]

\* verify(): what one pass of the branch taken does to one Checkable.
verifyBody(c, m) ==
    IF m = "reset"
    THEN [rules |-> [k \in 1..Len(rules[c]) |-> Reset(rules[c][k])],
          events |-> << >>, op |-> "Reset"]
    ELSE [rules |-> Verify(c, rules[c], sample[c]).rules,
          events |-> Verify(c, rules[c], sample[c]).events, op |-> "Verify"]

\* verify(): the branch, decided by one read of silenced().
verifyBranch == IF silenced THEN "reset" ELSE "verify"

\* History: consecutive breaching evaluations per rule, as an observer counts
\* them: an evaluation in a silenced phase is no evaluation and starts afresh.
StreakAfter(c, m) ==
    [k \in 1..Len(rules[c]) |->
        IF m = "verify" /\ Breach(rules[c][k], sample[c])
        THEN streak[c][k] + 1 ELSE 0]

\* A time.Time is a struct of several machine words (wall, ext and the
\* location pointer); two of them are kept here.
TimeWords == {"wall", "ext"}

\* The words of the time.Time for time t: each of them depends on t.
TimeOf(t) == [w \in TimeWords |-> t]

\* New(): SilenceUntil: time.Now(); no assignment or read is in progress.
raceIdle ==
    /\ SilenceUntilWords = TimeOf(0)
    /\ storing = Nil
    /\ loading = [w \in {} |-> 0]
    /\ observed = Nil
    /\ written = {0}

Init ==
    /\ Services \in {[k \in 1..n |-> k] : n \in 0..NumServices}
    /\ main = "new"
    /\ Socket = FALSE
    /\ pc = "off"
    /\ idx = 1
    /\ resolved = {}
    /\ barrier = 0
    /\ collect = [c \in Checkables |-> "idle"]
    /\ sample = [c \in Checkables |-> 0]
    /\ \E cfg \in [Checkables -> UNION {RuleConfigs(c) : c \in Checkables}] :
          /\ \A c \in Checkables : cfg[c] \in RuleConfigs(c)
          /\ rules = [c \in Checkables |-> <<NewRule(cfg[c])>>]
    /\ mode = "none"
    /\ now = 0
    /\ SilenceUntil = 0
    /\ GlobalConfig = [Top |-> [CycleTime |-> CycleTime, DeployLength |-> DeployLength],
                       AlertRoutes |-> Some([n \in {} |-> Nil])]
    /\ pending = {}
    /\ notifyLog = [n \in {} |-> Nil]
    /\ notifyPc = "off"
    /\ timerStart = 0
    /\ scans = 0
    /\ waits = 0
    /\ trustReturns = 0
    /\ verifyReturns = 0
    /\ collectedIn = [c \in Checkables |-> 0]
    /\ streak = [c \in Checkables |-> [k \in 1..Len(rules[c]) |-> 0]]
    /\ emitted = << >>
    /\ phaseLog = << >>
    /\ silencedAt = -1
    /\ cmdPhase = "none"
    /\ elapsed = 0
    /\ prevOverran = FALSE
    /\ raceIdle
    /\ parseIn = Nil
    /\ parseOut = Nil

notifyVars == <<pending, notifyLog, notifyPc>>
raceVars == <<SilenceUntilWords, storing, loading, observed, written>>
cycleVars == <<elapsed, prevOverran>>
cfgVars == <<Services, GlobalConfig, parseIn, parseOut, notifyVars, raceVars, cycleVars>>
procVars == <<main, Socket>>
silenceVars == <<SilenceUntil, silencedAt, cmdPhase>>
loopVars == <<pc, idx, resolved, timerStart, scans, waits>>
trustVars == <<barrier, collect, sample, collectedIn, trustReturns>>
verifyVars == <<rules, mode, streak, emitted, phaseLog, verifyReturns>>

\* Start(): the socket opens; the accept loop and runLoop are started.
StartOk ==
    /\ main = "new" /\ ~Socket
    /\ Socket' = TRUE
    /\ main' = "running"
    /\ pc' = "resolve"
    /\ UNCHANGED <<idx, resolved, timerStart, scans, waits, now>>
    /\ UNCHANGED <<cfgVars, silenceVars, trustVars, verifyVars>>

\* A Start() that logs the openSocket error and carries on without exiting.
StartFailContinues ==
    /\ main = "new"
    /\ main' = "running"
    /\ pc' = "resolve"
    /\ UNCHANGED <<Socket, idx, resolved, timerStart, scans, waits, now>>
    /\ UNCHANGED <<cfgVars, silenceVars, trustVars, verifyVars>>

\* Start(): net.Listen fails; exit(i) ends the process.
StartFail ==
    /\ main = "new"
    /\ main' = "exited"
    /\ UNCHANGED <<Socket, now>>
    /\ UNCHANGED <<cfgVars, silenceVars, loopVars, trustVars, verifyVars>>

\* The clock. A second that passes during a scan is a second the scan takes.
Tick ==
    /\ now < MaxTime
    /\ now' = now + 1
    /\ elapsed' = IF pc \in {"spawn", "wait", "verify", "verifying"}
                     /\ elapsed < GlobalConfig.Top.CycleTime
                  THEN elapsed + 1 ELSE elapsed
    /\ UNCHANGED <<Services, GlobalConfig, parseIn, parseOut, notifyVars, raceVars>>
    /\ UNCHANGED prevOverran
    /\ UNCHANGED <<procVars, silenceVars, loopVars, trustVars, verifyVars>>

\* acceptCommand(): the enter-silence command.
acceptCommand ==
    /\ main = "running"
    /\ SilenceUntil' = now + GlobalConfig.Top.DeployLength
    /\ silencedAt' = now
    /\ cmdPhase' = IF pc = "verifying" THEN "this" ELSE "none"
    /\ UNCHANGED now
    /\ UNCHANGED <<cfgVars, procVars, loopVars, trustVars, verifyVars>>

\* runLoop: svc.Resolve for the next Service.
runLoopResolve ==
    /\ main = "running" /\ pc = "resolve" /\ ~resolveLoopDone
    /\ resolved' = resolved \cup {Services[idx]}
    /\ idx' = idx + 1
    /\ UNCHANGED <<pc, timerStart, scans, waits, now>>
    /\ UNCHANGED <<cfgVars, procVars, silenceVars, trustVars, verifyVars>>

\* A scanSystem() that skips trust() while the daemon is silenced.
trustEnterUnlessSilenced ==
    /\ barrier' = IF silenced THEN 0 ELSE trustAdd
    /\ pc' = IF silenced THEN "verify" ELSE "spawn"
    /\ idx' = 0
    /\ scans' = scans + 1
    /\ elapsed' = 0
    /\ prevOverran' = (scans >= 1 /\ elapsed >= GlobalConfig.Top.CycleTime)
    /\ UNCHANGED <<resolved, timerStart, collect, sample, collectedIn, trustReturns, now>>
    /\ UNCHANGED <<Services, GlobalConfig, parseIn, parseOut, notifyVars, raceVars>>
    /\ UNCHANGED <<procVars, silenceVars, verifyVars>>

\* scanSystem() calls trust(), which sets up its barrier.
trustEnter ==
    /\ barrier' = trustAdd
    /\ pc' = "spawn"
    /\ idx' = 0
    /\ scans' = scans + 1
    /\ elapsed' = 0
    /\ prevOverran' = (scans >= 1 /\ elapsed >= GlobalConfig.Top.CycleTime)
    /\ UNCHANGED <<resolved, timerStart, collect, sample, collectedIn, trustReturns, now>>
    /\ UNCHANGED <<Services, GlobalConfig, parseIn, parseOut, notifyVars, raceVars>>
    /\ UNCHANGED <<procVars, silenceVars, verifyVars>>

\* runLoop: the first scanSystem(), right after the Resolve loop.
runLoopFirstScan ==
    /\ main = "running" /\ pc = "resolve" /\ resolveLoopDone
    /\ waits' = waits
    /\ trustEnter

\* runLoop: time.After(CycleTime) fires, then scanSystem().
runLoopTimer ==
    /\ main = "running" /\ pc = "timer"
    /\ timerFired
    /\ scans < MaxScans
    /\ waits' = waits + 1
    /\ trustEnter

\* trust(): go Host.Collect(...), then go svc.Collect(...) for each Service.
trustSpawn ==
    /\ main = "running" /\ pc = "spawn" /\ idx <= Len(Services)
    /\ collect' = [collect EXCEPT ![CheckableAt(idx)] = "running"]
    /\ idx' = idx + 1
    /\ pc' = IF idx = Len(Services) THEN "wait" ELSE "spawn"
    /\ UNCHANGED <<resolved, timerStart, scans, waits, now>>
    /\ UNCHANGED <<barrier, sample, collectedIn, trustReturns>>
    /\ UNCHANGED <<cfgVars, procVars, silenceVars, verifyVars>>

\* A running Collect finishes: a new sample, or the stale one when collection
\* failed; either way the completion callback runs once: barrier.Done().
CollectDone(c) ==
    /\ main = "running" /\ collect[c] = "running"
    /\ \E v \in SampleValues \cup {sample[c]} : sample' = [sample EXCEPT ![c] = v]
    /\ barrier' = barrier - 1
    /\ collect' = [collect EXCEPT ![c] = "done"]
    /\ collectedIn' = [collectedIn EXCEPT ![c] = scans]
    /\ UNCHANGED <<trustReturns, now>>
    /\ UNCHANGED <<cfgVars, procVars, silenceVars, loopVars, verifyVars>>

\* trust(): barrier.Wait() returns; trust() returns.
trustWait ==
    /\ main = "running" /\ pc = "wait" /\ barrierWait
    /\ pc' = "verify"
    /\ trustReturns' = trustReturns + 1
    /\ UNCHANGED <<idx, resolved, timerStart, scans, waits, now>>
    /\ UNCHANGED <<barrier, collect, sample, collectedIn>>
    /\ UNCHANGED <<cfgVars, procVars, silenceVars, verifyVars>>

\* verify(): if i.silenced() { ... } else { ... }
verifyBegin ==
    /\ main = "running" /\ pc = "verify"
    /\ mode' = verifyBranch
    /\ idx' = 0
    /\ pc' = "verifying"
    /\ UNCHANGED <<resolved, timerStart, scans, waits, now>>
    /\ UNCHANGED <<rules, streak, emitted, phaseLog, verifyReturns>>
    /\ cmdPhase' = IF cmdPhase = "this" THEN "previous" ELSE "none"
    /\ UNCHANGED <<SilenceUntil, silencedAt>>
    /\ UNCHANGED <<cfgVars, procVars, trustVars>>

\* verify(): one Checkable is reset or verified.
verifyCheckable ==
    /\ main = "running" /\ pc = "verifying" /\ idx <= Len(Services)
    /\ LET c == CheckableAt(idx)
           r == verifyBody(c, mode)
       IN  /\ rules' = [rules EXCEPT ![c] = r.rules]
           /\ emitted' = emitted \o r.events
           /\ phaseLog' = Append(phaseLog, [op |-> r.op, c |-> c])
           /\ streak' = [streak EXCEPT ![c] = StreakAfter(c, mode)]
    /\ idx' = idx + 1
    /\ UNCHANGED <<pc, resolved, timerStart, scans, waits, now>>
    /\ UNCHANGED <<mode, verifyReturns>>
    /\ UNCHANGED <<cfgVars, procVars, silenceVars, trustVars>>

\* A verify() that ends the silence when it returns.
verifyReturnEndsSilence ==
    /\ main = "running" /\ pc = "verifying" /\ idx > Len(Services)
    /\ pc' = "timer"
    /\ mode' = "none"
    /\ timerStart' = now
    /\ emitted' = << >>
    /\ phaseLog' = << >>
    /\ verifyReturns' = verifyReturns + 1
    /\ SilenceUntil' = now
    /\ UNCHANGED <<idx, resolved, scans, waits, now>>
    /\ UNCHANGED <<rules, streak>>
    /\ UNCHANGED <<silencedAt, cmdPhase>>
    /\ UNCHANGED <<cfgVars, procVars, trustVars>>

\* verify() and scanSystem() return; runLoop creates the next timer.
verifyReturn ==
    /\ main = "running" /\ pc = "verifying" /\ idx > Len(Services)
    /\ pc' = "timer"
    /\ mode' = "none"
    /\ timerStart' = now
    /\ emitted' = << >>
    /\ phaseLog' = << >>
    /\ verifyReturns' = verifyReturns + 1
    /\ UNCHANGED <<idx, resolved, scans, waits, now>>
    /\ UNCHANGED <<rules, streak>>
    /\ UNCHANGED silenceVars
    /\ UNCHANGED <<cfgVars, procVars, trustVars>>

Next ==
    \/ StartOk
    \/ StartFail
    \/ Tick
    \/ acceptCommand
    \/ runLoopResolve
    \/ runLoopFirstScan
    \/ runLoopTimer
    \/ trustSpawn
    \/ \E c \in Checkables : CollectDone(c)
    \/ trustWait
    \/ verifyBegin
    \/ verifyCheckable
    \/ verifyReturn

Spec == Init /\ [][Next]_vars

\* Fair scheduling: the runLoop goroutine takes its next step when it can
\* (Wait() returns once the counter is zero), and every Collect started
\* eventually invokes its completion callback.
Fairness ==
    /\ WF_vars(trustSpawn)
    /\ WF_vars(trustWait)
    /\ WF_vars(verifyBegin)
    /\ WF_vars(verifyCheckable)
    /\ WF_vars(verifyReturn)
    /\ \A c \in 0..NumServices : WF_vars(c \in Checkables /\ CollectDone(c))

\* The daemon as New() and Parse() leave it, with the scenario's rule
\* (CyclesRequired 1, no recovery notification) on the Host: the rules'
\* configuration has no part in the collection barrier.
InitLive ==
    /\ Init
    /\ rules[Host][1].CyclesRequired = 1
    /\ ~rules[Host][1].NotifyRecovery

SpecLive == InitLive /\ [][Next]_vars /\ Fairness

\* ------------------------------------------------ global configuration
Defaults == [CycleTime |-> DefaultCycleTime, DeployLength |-> DefaultDeployLength]

ConfigKeys == {"username", "password", "hostname", "to"}

\* The keys a channel requires; a channel that is not listed is unknown.
RequiredKeys ==
    [email |-> {"username", "password", "hostname", "to"},
     gmail |-> {"username", "password", "to"}]

\* Channel validation: an unknown channel or a missing required key is an
\* error that names what is missing, and nothing is constructed.
MissingKeys(channel, config) == RequiredKeys[channel] \ DOMAIN config

ChannelError(channel, config) ==
    IF channel \notin DOMAIN RequiredKeys
    THEN Some([kind |-> "unknown channel", what |-> {channel}])
    ELSE IF MissingKeys(channel, config) # {}
    THEN Some([kind |-> "missing key", what |-> MissingKeys(channel, config)])
    ELSE Nil

\* ValidateChannel(name, channel, config): the AlertRoute, or the error.
ValidateChannel(name, channel, config) ==
    IF ChannelError(channel, config) # Nil
    THEN [ar |-> Nil, err |-> ChannelError(channel, config)]
    ELSE [ar |-> Some([Name |-> name, Channel |-> channel, Config |-> config]),
          err |-> Nil]

\* SetupNotification(channel, config): the notifier of a channel, or the error.
SetupNotification(channel, config) ==
    IF ChannelError(channel, config) # Nil
    THEN [notifier |-> Nil, err |-> ChannelError(channel, config)]
    ELSE [notifier |-> Some([Channel |-> channel, Config |-> config]), err |-> Nil]

\* strconv.ParseUint(val, 10, 32) on a string given as its characters.
Digits == <<"0", "1", "2", "3", "4", "5", "6", "7", "8", "9">>
DigitOf(ch) == (CHOOSE d \in 1..10 : Digits[d] = ch) - 1
IsDigit(ch) == \E d \in 1..10 : Digits[d] = ch

RECURSIVE DecimalValue(_)
DecimalValue(str) ==
    IF str = << >> THEN 0
    ELSE 10 * DecimalValue(SubSeq(str, 1, Len(str) - 1)) + DigitOf(str[Len(str)])

\* The digits of 1<<32 - 1, the largest value of bitSize 32.
MaxUint32 == <<"4", "2", "9", "4", "9", "6", "7", "2", "9", "5">>

RECURSIVE StripZeros(_)
StripZeros(str) ==
    IF str # << >> /\ Head(str) = "0" THEN StripZeros(Tail(str)) ELSE str

\* a > b for digit strings of one length.
RECURSIVE DigitsGreater(_, _)
DigitsGreater(a, b) ==
    /\ a # << >>
    /\ \/ DigitOf(Head(a)) > DigitOf(Head(b))
       \/ Head(a) = Head(b) /\ DigitsGreater(Tail(a), Tail(b))

OutOfRange(str) ==
    LET d == StripZeros(str) IN
    \/ Len(d) > Len(MaxUint32)
    \/ Len(d) = Len(MaxUint32) /\ DigitsGreater(d, MaxUint32)

\* The value is given for results below 2^31. On a range error Go returns
\* 1<<32 - 1 with the error; parseValue discards that value, and it is -1 here.
ParseUint(str) ==
    IF str = << >> \/ \E n \in 1..Len(str) : ~IsDigit(str[n])
    THEN [ival |-> 0, err |-> Some("syntax")]
    ELSE IF OutOfRange(str)
    THEN [ival |-> -1, err |-> Some("range")]
    ELSE [ival |-> DecimalValue(str), err |-> Nil]

\* A parseValue that stores what ParseUint returned beside its error.
parseValueKeepsIval(variables, store, name, def) ==
    IF name \in DOMAIN variables
    THEN ParseUint(variables[name]).ival
    ELSE store

\* parseValue(ast, store, name, def): the value left in *store.
parseValue(variables, store, name, def) ==
    IF name \in DOMAIN variables
    THEN IF ParseUint(variables[name]).err # Nil
         THEN def
         ELSE ParseUint(variables[name]).ival
    ELSE store

\* The (*ConfigFile, error) pairs ParseGlobal returns.
Failure(kind, what) == [config |-> Nil, err |-> Some([kind |-> kind, what |-> what])]
Success(top, routes) == [config |-> Some([Top |-> top, AlertRoutes |-> routes]), err |-> Nil]

\* A loop body without the duplicate check: a later route replaces an earlier
\* one of the same Name.
routeStepOverwrites(acc, v) ==
    LET r == ValidateChannel(v.Name, v.Channel, v.Config)
        m == acc.config[1].AlertRoutes[1]
    IN  IF acc.err # Nil THEN acc
        ELSE IF r.err # Nil THEN [config |-> Nil, err |-> r.err]
        ELSE Success(acc.config[1].Top,
                     Some([n \in DOMAIN m \cup {v.Name} |->
                              IF n = v.Name THEN r.ar[1] ELSE m[n]]))

\* A loop body that skips a route failing validation instead of returning.
routeStepSkipsInvalid(acc, v) ==
    LET r == ValidateChannel(v.Name, v.Channel, v.Config)
        m == acc.config[1].AlertRoutes[1]
    IN  IF acc.err # Nil \/ r.err # Nil THEN acc
        ELSE IF v.Name \in DOMAIN m THEN Failure("duplicate", {v.Name})
        ELSE Success(acc.config[1].Top,
                     Some([n \in DOMAIN m \cup {v.Name} |->
                              IF n = v.Name THEN r.ar[1] ELSE m[n]]))

\* ParseGlobal, the body of "for _, v := range ast.Routes": acc is the
\* pending return value, its config.AlertRoutes the map built so far.
routeStep(acc, v) ==
    LET r == ValidateChannel(v.Name, v.Channel, v.Config)
        m == acc.config[1].AlertRoutes[1]
    IN  IF acc.err # Nil THEN acc
        ELSE IF r.err # Nil THEN [config |-> Nil, err |-> r.err]
        ELSE IF v.Name \in DOMAIN m THEN Failure("duplicate", {v.Name})
        ELSE Success(acc.config[1].Top,
                     Some([n \in DOMAIN m \cup {v.Name} |->
                              IF n = v.Name THEN r.ar[1] ELSE m[n]]))

RECURSIVE routeLoop(_, _)
routeLoop(acc, routes) ==
    IF routes = << >> THEN acc
    ELSE routeLoop(routeStep(acc, Head(routes)), Tail(routes))

\* ParseGlobal(rootDir): (config, err).
ParseGlobal(in) ==
    IF in.file = "stat error" THEN Failure("stat", {})
    ELSE IF in.file = "absent" THEN Success(Defaults, Nil)
    ELSE IF in.file = "read error" THEN Failure("read", {})
    ELSE IF in.file = "syntax error" THEN Failure("parse", {})
    ELSE LET top == [CycleTime |->
                        parseValue(in.Variables, Defaults.CycleTime, "cycle_time", 15),
                     DeployLength |->
                        parseValue(in.Variables, Defaults.DeployLength, "deploy_length", 300)]
         IN  routeLoop(Success(top, Some([n \in {} |-> Nil])), in.Routes)

\* The configuration files explored.
RouteNames == {"", "ops"}
Channels == {"email", "gmail", "irc"}
ConfigValues == [username |-> "mike", password |-> "fuzzbucket",
                 hostname |-> "smtp.example.com", to |-> "mike@example.org"]
Configs ==
    {[k \in ks |-> ConfigValues[k]] :
        ks \in {ConfigKeys} \cup {ConfigKeys \ {k} : k \in ConfigKeys}}
RouteInputs == [Name : RouteNames, Channel : Channels, Config : Configs]
VariableValues == {<<"2", "0">>, <<"2", "x">>}
VariableMaps ==
    UNION {[names -> VariableValues] : names \in SUBSET {"cycle_time", "deploy_length"}}
\* The values of cycle_time and deploy_length explored in a file without
\* routes: numerals (with leading zeros, zero, the largest 31-bit value), the
\* empty string, a signed numeral, a non-numeral and 1<<32, which is out of
\* range for bitSize 32.
TunableValues ==
    {<<"2", "0">>, <<"0", "0", "7">>, <<"0">>,
     <<"2", "1", "4", "7", "4", "8", "3", "6", "4", "7">>,
     << >>, <<"-", "1">>, <<"2", "x">>,
     <<"4", "2", "9", "4", "9", "6", "7", "2", "9", "6">>}
TunableMaps ==
    UNION {[names -> TunableValues] : names \in SUBSET {"cycle_time", "deploy_length"}}
ParseInputs ==
    [file : {"stat error", "absent", "read error", "syntax error"},
     Variables : {[n \in {} |-> << >>]}, Routes : {<< >>}]
    \cup [file : {"parsed"}, Variables : VariableMaps,
          Routes : UNION {[1..n -> RouteInputs] : n \in 0..MaxRoutes}]
    \cup [file : {"parsed"}, Variables : TunableMaps, Routes : {<< >>}]

InitParse ==
    /\ parseIn \in ParseInputs
    /\ parseOut = Nil
    /\ Services = << >>
    /\ main = "new"
    /\ Socket = FALSE
    /\ pc = "off"
    /\ idx = 1
    /\ resolved = {}
    /\ barrier = 0
    /\ collect = [c \in {Host} |-> "idle"]
    /\ sample = [c \in {Host} |-> 0]
    /\ rules = [c \in {Host} |-> << >>]
    /\ mode = "none"
    /\ now = 0
    /\ SilenceUntil = 0
    /\ GlobalConfig = [Top |-> Defaults, AlertRoutes |-> Some([n \in {} |-> Nil])]
    /\ pending = {}
    /\ notifyLog = [n \in {} |-> Nil]
    /\ notifyPc = "off"
    /\ timerStart = 0
    /\ scans = 0
    /\ waits = 0
    /\ trustReturns = 0
    /\ verifyReturns = 0
    /\ collectedIn = [c \in {Host} |-> 0]
    /\ streak = [c \in {Host} |-> << >>]
    /\ emitted = << >>
    /\ phaseLog = << >>
    /\ silencedAt = -1
    /\ cmdPhase = "none"
    /\ elapsed = 0
    /\ prevOverran = FALSE
    /\ raceIdle

\* Parse() calls ParseGlobal(i.RootDir).
ParseGlobalCall ==
    /\ parseOut = Nil
    /\ parseOut' = Some(ParseGlobal(parseIn))
    /\ UNCHANGED <<Services, GlobalConfig, parseIn, now, notifyVars, raceVars, cycleVars>>
    /\ UNCHANGED <<procVars, silenceVars, loopVars, trustVars, verifyVars>>

NextParse == ParseGlobalCall

SpecParse == InitParse /\ [][NextParse]_vars

\* ------------------------------------------------------ TestNotifications
\* Actions["alert"](i.Host, route): whether a notifier can be built for the
\* route. A route that fails channel validation yields none; building one for
\* a valid route may still fail, which is an input (ok says it does not).
alertAction(route, ok) ==
    IF SetupNotification(route.Channel, route.Config).err # Nil
    THEN SetupNotification(route.Channel, route.Config)
    ELSE IF ok THEN SetupNotification(route.Channel, route.Config)
    ELSE [notifier |-> Nil, err |-> Some([kind |-> "setup", what |-> {}])]

\* The AlertRoutes a loaded configuration can hold: nil without a
\* configuration file, else the validated routes of the file.
LoadedAlertRoutes ==
    {ParseGlobal(in).config[1].AlertRoutes :
        in \in {x \in ParseInputs : ParseGlobal(x).err = Nil}}

\* The routes "range i.GlobalConfig.AlertRoutes" visits (none for a nil map).
RangeRoutes(m) == IF m = Nil THEN {} ELSE DOMAIN m[1]

InitNotify ==
    /\ GlobalConfig \in [Top : {Defaults}, AlertRoutes : LoadedAlertRoutes]
    /\ rules \in [{Host} -> {<< >>} \cup
                    {<<NewRule(cfg)>> : cfg \in RuleConfigs(Host)}]
    /\ pending = RangeRoutes(GlobalConfig.AlertRoutes)
    /\ notifyLog = [n \in RangeRoutes(GlobalConfig.AlertRoutes) |->
                      [attempts |-> 0, built |-> FALSE, triggers |-> 0,
                       result |-> "none"]]
    /\ notifyPc = "loop"
    /\ parseIn = Nil
    /\ parseOut = Nil
    /\ Services = << >>
    /\ main = "new"
    /\ Socket = FALSE
    /\ pc = "off"
    /\ idx = 1
    /\ resolved = {}
    /\ barrier = 0
    /\ collect = [c \in {Host} |-> "idle"]
    /\ sample = [c \in {Host} |-> 0]
    /\ mode = "none"
    /\ now = 0
    /\ SilenceUntil = 0
    /\ timerStart = 0
    /\ scans = 0
    /\ waits = 0
    /\ trustReturns = 0
    /\ verifyReturns = 0
    /\ collectedIn = [c \in {Host} |-> 0]
    /\ streak = [c \in {Host} |-> [k \in 1..Len(rules[c]) |-> 0]]
    /\ emitted = << >>
    /\ phaseLog = << >>
    /\ silencedAt = -1
    /\ cmdPhase = "none"
    /\ elapsed = 0
    /\ prevOverran = FALSE
    /\ raceIdle

notifyFrame ==
    /\ UNCHANGED <<Services, GlobalConfig, parseIn, parseOut, now, raceVars, cycleVars>>
    /\ UNCHANGED <<procVars, silenceVars, loopVars, trustVars, verifyVars>>

\* One iteration of the range loop whose notifier cannot be built: the error
\* is logged and the loop continues.
TestNotificationsSetupError(n) ==
    /\ notifyPc = "loop" /\ n \in pending
    /\ \E ok \in BOOLEAN :
          /\ alertAction(GlobalConfig.AlertRoutes[1][n], ok).err # Nil
          /\ notifyLog' = [notifyLog EXCEPT ![n].attempts = @ + 1,
                                            ![n].result = "setup error"]
    /\ pending' = pending \ {n}
    /\ UNCHANGED notifyPc
    /\ notifyFrame

\* One iteration whose notifier is built: the Event's rule is
\* i.Host.Rules()[0], then notifier.Trigger delivers or fails (logged).
TestNotificationsTrigger(n) ==
    /\ notifyPc = "loop" /\ n \in pending
    /\ Len(rules[Host]) > 0
    /\ alertAction(GlobalConfig.AlertRoutes[1][n], TRUE).err = Nil
    /\ \E delivered \in BOOLEAN :
          notifyLog' = [notifyLog EXCEPT
                           ![n].attempts = @ + 1, ![n].built = TRUE,
                           ![n].triggers = @ + 1,
                           ![n].result = IF delivered THEN "delivered"
                                         ELSE "trigger error"]
    /\ pending' = pending \ {n}
    /\ UNCHANGED notifyPc
    /\ notifyFrame

\* One iteration whose notifier is built while the Host has no rule:
\* i.Host.Rules()[0] is out of range and the goroutine panics.
TestNotificationsPanic(n) ==
    /\ notifyPc = "loop" /\ n \in pending
    /\ Len(rules[Host]) = 0
    /\ alertAction(GlobalConfig.AlertRoutes[1][n], TRUE).err = Nil
    /\ notifyLog' = [notifyLog EXCEPT ![n].attempts = @ + 1, ![n].built = TRUE,
                                      ![n].result = "panic"]
    /\ pending' = pending \ {n}
    /\ notifyPc' = "panic"
    /\ notifyFrame

\* The range loop is over; TestNotifications returns.
TestNotificationsReturn ==
    /\ notifyPc = "loop" /\ pending = {}
    /\ notifyPc' = "returned"
    /\ UNCHANGED <<pending, notifyLog>>
    /\ notifyFrame

NextNotify ==
    \/ \E n \in RouteNames : TestNotificationsSetupError(n)
    \/ \E n \in RouteNames : TestNotificationsTrigger(n)
    \/ \E n \in RouteNames : TestNotificationsPanic(n)
    \/ TestNotificationsReturn

SpecNotify == InitNotify /\ [][NextNotify]_vars

\* ------------------------------------- i.SilenceUntil between goroutines
\* Start() has run: the accept goroutine (acceptCommand in a loop) and the
\* scan goroutine (runLoop, whose verify() calls silenced()) share
\* i.SilenceUntil, a plain time.Time field with no lock and no atomic access.
\* The accesses race, so an assignment and a read are each a set of
\* word-sized accesses in any order.
InitRace ==
    /\ raceIdle
    /\ main = "running"
    /\ Socket = TRUE
    /\ now = 0
    /\ SilenceUntil = 0
    /\ GlobalConfig = [Top |-> [CycleTime |-> CycleTime, DeployLength |-> DeployLength],
                       AlertRoutes |-> Some([n \in {} |-> Nil])]
    /\ Services = << >>
    /\ pc = "verify"
    /\ idx = 1
    /\ resolved = {}
    /\ barrier = 0
    /\ collect = [c \in {Host} |-> "done"]
    /\ sample = [c \in {Host} |-> 0]
    /\ rules = [c \in {Host} |-> << >>]
    /\ mode = "none"
    /\ pending = {}
    /\ notifyLog = [n \in {} |-> Nil]
    /\ notifyPc = "off"
    /\ timerStart = 0
    /\ scans = 1
    /\ waits = 0
    /\ trustReturns = 1
    /\ verifyReturns = 0
    /\ collectedIn = [c \in {Host} |-> 1]
    /\ streak = [c \in {Host} |-> << >>]
    /\ emitted = << >>
    /\ phaseLog = << >>
    /\ silencedAt = -1
    /\ cmdPhase = "none"
    /\ elapsed = 0
    /\ prevOverran = FALSE
    /\ parseIn = Nil
    /\ parseOut = Nil

raceFrame ==
    /\ UNCHANGED <<Services, GlobalConfig, parseIn, parseOut, notifyVars, cycleVars, now>>
    /\ UNCHANGED <<procVars, loopVars, trustVars, verifyVars>>
    /\ UNCHANGED <<silencedAt, cmdPhase>>

\* acceptCommand(), enter silence: i.SilenceUntil = now + DeployLength begins;
\* none of its words is stored yet.
acceptCommandAssign ==
    /\ main = "running" /\ storing = Nil
    /\ storing' = Some([val |-> TimeOf(now + GlobalConfig.Top.DeployLength),
                        left |-> TimeWords])
    /\ SilenceUntil' = now + GlobalConfig.Top.DeployLength
    /\ written' = written \cup {now + GlobalConfig.Top.DeployLength}
    /\ UNCHANGED <<SilenceUntilWords, loading, observed>>
    /\ raceFrame

\* The assignment stores one more word of the field.
storeWord(w) ==
    /\ storing # Nil /\ w \in storing[1].left
    /\ SilenceUntilWords' = [SilenceUntilWords EXCEPT ![w] = storing[1].val[w]]
    /\ storing' = IF storing[1].left = {w} THEN Nil
                  ELSE Some([storing[1] EXCEPT !.left = @ \ {w}])
    /\ UNCHANGED <<SilenceUntil, loading, observed, written>>
    /\ raceFrame

\* silenced(): the read of i.SilenceUntil loads one more word of the field.
loadWord(w) ==
    /\ main = "running" /\ w \notin DOMAIN loading
    /\ loading' = [x \in DOMAIN loading \cup {w} |->
                      IF x = w THEN SilenceUntilWords[w] ELSE loading[x]]
    /\ UNCHANGED <<SilenceUntil, SilenceUntilWords, storing, observed, written>>
    /\ raceFrame

\* silenced(): every word is loaded; time.Now().Before(...) is evaluated on
\* the time.Time they make up.
silencedRead ==
    /\ DOMAIN loading = TimeWords
    /\ observed' = Some(loading)
    /\ loading' = [w \in {} |-> 0]
    /\ UNCHANGED <<SilenceUntil, SilenceUntilWords, storing, written>>
    /\ raceFrame

NextRace ==
    \/ Tick
    \/ acceptCommandAssign
    \/ \E w \in TimeWords : storeWord(w)
    \/ \E w \in TimeWords : loadWord(w)
    \/ silencedRead

SpecRace == InitRace /\ [][NextRace]_vars

\* ------------------------------------------------------------------ claims
\* Positions of runLoop at which the trust() of the current scan has returned.
AfterTrust == pc \in {"verify", "verifying", "timer"}

\* C1: barrier completeness. trust() starts one Collect per Checkable (the Host
\* and each of the N Services, N >= 0); it has returned only if every one of
\* the N+1 completion callbacks of this scan has run; the WaitGroup counter is
\* never negative; and trust() returns once per call.
C1_BarrierCompleteness ==
    /\ barrier >= 0
    /\ pc \in {"spawn", "wait"} => trustReturns = scans - 1
    /\ pc = "wait" =>
          \A c \in Checkables : collect[c] = "running" \/ collectedIn[c] = scans
    /\ AfterTrust =>
          /\ trustReturns = scans
          /\ barrier = 0
          /\ \A c \in Checkables : collect[c] = "done" /\ collectedIn[c] = scans

\* trust() has returned in the second scan of a daemon with NumServices Services.
C1_Witness ==
    /\ pc = "verify" /\ scans = 2 /\ Len(Services) = NumServices
    /\ \A c \in Checkables : collectedIn[c] = 2

\* The step just taken called Verify on Checkable c.
Verified(c) ==
    /\ Len(phaseLog') = Len(phaseLog) + 1
    /\ phaseLog'[Len(phaseLog')] = [op |-> "Verify", c |-> c]

\* The number of events of type t the step just taken emitted for rule k of c.
NewEvents(t, c, k) ==
    Cardinality({n \in (Len(emitted) + 1)..Len(emitted') :
                    emitted'[n] = [Type |-> t, Subject |-> c, Rule |-> k]})

\* C2: hysteresis. A non-silenced evaluation takes an Ok rule with
\* CyclesRequired = N to Failed exactly when it completes N consecutive
\* breaching evaluations, and then emits one RuleFailed event; a non-breaching
\* evaluation zeroes the breach counter; a rule that is Failed and breaches
\* again stays Failed and emits no RuleFailed event.
C2_Hysteresis ==
    [][\A c \in Checkables : \A k \in 1..Len(rules[c]) :
          LET r == rules[c][k]
              r2 == rules'[c][k]
          IN  Verified(c) =>
                /\ r.State = "Ok" =>
                     (r2.State = "Failed" <=> streak'[c][k] = r.CyclesRequired)
                /\ NewEvents("RuleFailed", c, k) =
                     (IF r.State = "Ok" /\ r2.State = "Failed" THEN 1 ELSE 0)
                /\ ~Breach(r, sample[c]) => r2.count = 0
                /\ r.State = "Failed" /\ Breach(r, sample[c]) => r2.State = "Failed"
      ]_vars

\* A rule with CyclesRequired = 2 has just failed on its second consecutive
\* breaching evaluation, with its RuleFailed event emitted.
C2_Witness ==
    \E c \in Checkables :
        /\ pc = "verifying"
        /\ rules[c][1].CyclesRequired = 2
        /\ rules[c][1].State = "Failed"
        /\ streak[c][1] = 2
        /\ \E n \in 1..Len(emitted) : emitted[n] = [Type |-> "RuleFailed", Subject |-> c, Rule |-> 1]

\* C3: recovery. A non-silenced, non-breaching evaluation of a Failed rule
\* makes it Ok and emits exactly one RuleRecovered event when the rule notifies
\* recovery (none otherwise); an evaluation of a rule that is Ok emits no
\* RuleRecovered event.
C3_Recovery ==
    [][\A c \in Checkables : \A k \in 1..Len(rules[c]) :
          LET r == rules[c][k]
              r2 == rules'[c][k]
          IN  Verified(c) =>
                /\ r.State = "Failed" /\ ~Breach(r, sample[c]) =>
                     /\ r2.State = "Ok"
                     /\ NewEvents("RuleRecovered", c, k) =
                          (IF r.NotifyRecovery THEN 1 ELSE 0)
                /\ r.State = "Ok" => NewEvents("RuleRecovered", c, k) = 0
      ]_vars

\* A rule that notifies recovery has just recovered: it is Ok, and its
\* RuleRecovered event is among the events of the running verify().
C3_Witness ==
    \E c \in Checkables :
        /\ pc = "verifying"
        /\ rules[c][1].NotifyRecovery
        /\ rules[c][1].State = "Ok"
        /\ \E n \in 1..Len(emitted) : emitted[n] = [Type |-> "RuleRecovered", Subject |-> c, Rule |-> 1]

\* The calls a silenced verify() has made after visiting n Checkables.
ResetCalls(n) == [j \in 1..n |-> [op |-> "Reset", c |-> CheckableAt(j - 1)]]

\* C4: silence. A verify() that finds the daemon silenced calls Reset on the
\* rules of the Host and of every Service and Verify on no Checkable; its
\* steps change no rule's State, emit no event and leave the visited rules'
\* breach counters (and the observed streak) at zero, so that a rule fails
\* later only on N fresh consecutive breaches.
C4_Silence ==
    /\ [](pc = "verifying" /\ mode = "reset" =>
            /\ phaseLog = ResetCalls(idx)
            /\ emitted = << >>
            /\ \A j \in 1..idx : \A k \in 1..Len(rules[CheckableAt(j - 1)]) :
                  /\ rules[CheckableAt(j - 1)][k].count = 0
                  /\ streak[CheckableAt(j - 1)][k] = 0)
    /\ [][/\ pc = "verify" /\ pc' = "verifying" /\ silenced => mode' = "reset"
          /\ mode = "reset" =>
               \A c \in Checkables : \A k \in 1..Len(rules[c]) :
                  rules'[c][k].State = rules[c][k].State
          /\ \A c \in Checkables : \A k \in 1..Len(rules[c]) :
               rules[c][k].State = "Ok" /\ rules'[c][k].State = "Failed" =>
                  streak'[c][k] = rules[c][k].CyclesRequired
      ]_vars

\* A silenced verify() has reset every Checkable of a daemon with NumServices
\* Services, one of them holding a rule that had failed before the silence.
C4_Witness ==
    /\ pc = "verifying" /\ mode = "reset" /\ idx > Len(Services)
    /\ Len(Services) = NumServices
    /\ \E c \in Checkables : rules[c][1].State = "Failed"

\* C5: phases and cycles never overlap. While verify() runs no Collect is
\* running and every Checkable's callback has run in this scan; verify() runs
\* only after the trust() of the same scan has returned; and a trust() runs
\* only after the verify() of the scan before it has returned.
C5_NoOverlap ==
    /\ pc \in {"verify", "verifying"} =>
          /\ \A c \in Checkables : collect[c] # "running" /\ collectedIn[c] = scans
          /\ trustReturns = scans
          /\ verifyReturns = scans - 1
    /\ pc \in {"spawn", "wait"} =>
          /\ verifyReturns = scans - 1
          /\ trustReturns = scans - 1
          /\ mode = "none"
    /\ pc = "timer" => verifyReturns = scans /\ \A c \in Checkables : collect[c] # "running"

\* The verify() of the second scan is under way.
C5_Witness ==
    /\ pc = "verifying" /\ scans = 2 /\ idx = 1 /\ Len(Services) = NumServices

\* C6: the silence window. After an enter-silence command at time t (the
\* latest one), silenced() holds exactly while now < t + DeployLength, and a
\* verify() that starts then takes the reset branch, one that starts at or
\* after t + DeployLength the verify branch; the branch taken is the one its
\* passes execute.
C6_SilenceWindow ==
    /\ [](silencedAt >= 0 =>
            (silenced <=> now < silencedAt + GlobalConfig.Top.DeployLength))
    /\ [][/\ pc = "verify" /\ pc' = "verifying" /\ silencedAt >= 0 =>
               mode' = (IF now < silencedAt + GlobalConfig.Top.DeployLength
                        THEN "reset" ELSE "verify")
          /\ pc = "verifying" /\ Len(phaseLog') = Len(phaseLog) + 1 =>
               phaseLog'[Len(phaseLog')].op =
                  (IF mode = "reset" THEN "Reset" ELSE "Verify")
      ]_vars

\* A verify() that began at the very end of the window of the latest command
\* (no command since it began, now = t + DeployLength) has verified the Host.
C6_Witness ==
    /\ pc = "verifying" /\ mode = "verify" /\ cmdPhase # "this"
    /\ silencedAt >= 0
    /\ now = silencedAt + GlobalConfig.Top.DeployLength
    /\ phaseLog = <<[op |-> "Verify", c |-> Host]>>

\* C7: startup ordering. No Collect starts before Resolve has been called on
\* every Service; the first scan follows the Resolve loop with no timer wait;
\* and every later scan follows one more wait of the CycleTime timer.
C7_StartupOrdering ==
    /\ scans >= 1 => resolved = {Services[k] : k \in 1..Len(Services)}
    /\ (\E c \in Checkables : collect[c] # "idle") => scans >= 1
    /\ scans >= 1 => waits = scans - 1
    /\ pc \in {"off", "resolve"} => scans = 0 /\ waits = 0

\* The first scan is collecting, all Services resolved and no timer waited for.
C7_Witness ==
    /\ scans = 1 /\ waits = 0 /\ pc = "wait" /\ Len(Services) = NumServices
    /\ resolved = {Services[k] : k \in 1..Len(Services)}

\* The routes of the parsed file, and whether two of them share a Name.
InRoutes == parseIn.Routes
DuplicateName == \E a, b \in 1..Len(InRoutes) : a < b /\ InRoutes[a].Name = InRoutes[b].Name

\* Route n of the file supplies every key its (known) channel requires.
SuppliesAll(n) ==
    \/ InRoutes[n].Channel = "email"
          /\ {"username", "password", "hostname", "to"} \subseteq DOMAIN InRoutes[n].Config
    \/ InRoutes[n].Channel = "gmail"
          /\ {"username", "password", "to"} \subseteq DOMAIN InRoutes[n].Config

\* C8: route uniqueness. Loading a file in which two routes share a Name
\* returns an error and no configuration (the duplicate error when every route
\* passes channel validation); loading routes of pairwise different Names,
\* each passing channel validation, succeeds also when they share a Channel,
\* and AlertRoutes then holds exactly one entry per Name, the route of that
\* Name.
C8_RouteUniqueness ==
    parseOut # Nil /\ parseIn.file = "parsed" =>
        LET out == parseOut[1] IN
        /\ DuplicateName => out.config = Nil /\ out.err # Nil
        /\ DuplicateName /\ (\A n \in 1..Len(InRoutes) : SuppliesAll(n)) =>
              out.err[1].kind = "duplicate"
        /\ ~DuplicateName /\ (\A n \in 1..Len(InRoutes) : SuppliesAll(n)) =>
              /\ out.err = Nil /\ out.config # Nil
              /\ out.config[1].AlertRoutes # Nil
              /\ DOMAIN out.config[1].AlertRoutes[1] =
                    {InRoutes[n].Name : n \in 1..Len(InRoutes)}
              /\ \A n \in 1..Len(InRoutes) :
                    out.config[1].AlertRoutes[1][InRoutes[n].Name] =
                       [Name |-> InRoutes[n].Name, Channel |-> InRoutes[n].Channel,
                        Config |-> InRoutes[n].Config]

\* Two routes of different Names and one Channel have been loaded.
C8_Witness ==
    /\ parseOut # Nil /\ parseIn.file = "parsed"
    /\ Len(InRoutes) = 2 /\ InRoutes[1].Name # InRoutes[2].Name
    /\ InRoutes[1].Channel = InRoutes[2].Channel
    /\ parseOut[1].err = Nil
    /\ Cardinality(DOMAIN parseOut[1].config[1].AlertRoutes[1]) = 2

\* The first route of the file that fails channel validation, 0 if none does.
FirstInvalid ==
    IF \A n \in 1..Len(InRoutes) : SuppliesAll(n) THEN 0
    ELSE CHOOSE n \in 1..Len(InRoutes) :
            ~SuppliesAll(n) /\ \A b \in 1..(n - 1) : SuppliesAll(b)

\* C9: channel validation. A notifier is constructed when every key the
\* channel requires is supplied (email: username, password, hostname, to;
\* gmail: username, password, to); with one required key missing there is an
\* error naming that key and no notifier; and a file with a route that fails
\* validation makes ParseGlobal return an error and no configuration, the
\* validation error of the first such route when no Name is repeated before it.
C9_ChannelValidation ==
    parseOut # Nil /\ parseIn.file = "parsed" =>
        /\ \A n \in 1..Len(InRoutes) :
              LET made == SetupNotification(InRoutes[n].Channel, InRoutes[n].Config)
                  required == IF InRoutes[n].Channel = "email"
                              THEN {"username", "password", "hostname", "to"}
                              ELSE {"username", "password", "to"}
              IN  /\ SuppliesAll(n) => made.err = Nil /\ made.notifier # Nil
                  /\ InRoutes[n].Channel \in {"email", "gmail"} =>
                        \A k \in required :
                           DOMAIN InRoutes[n].Config \cap required = required \ {k} =>
                              /\ made.notifier = Nil
                              /\ made.err # Nil
                              /\ made.err[1].what = {k}
        /\ FirstInvalid # 0 =>
              /\ parseOut[1].config = Nil
              /\ parseOut[1].err # Nil
              /\ (\A a, b \in 1..(FirstInvalid - 1) :
                     a < b => InRoutes[a].Name # InRoutes[b].Name) =>
                    parseOut[1].err =
                       SetupNotification(InRoutes[FirstInvalid].Channel,
                                         InRoutes[FirstInvalid].Config).err

\* A file whose second route, an email route without hostname, fails
\* validation has been loaded: the error names hostname.
C9_Witness ==
    /\ parseOut # Nil /\ parseIn.file = "parsed"
    /\ Len(InRoutes) = 2 /\ FirstInvalid = 2
    /\ InRoutes[2].Channel = "email"
    /\ parseOut[1].config = Nil
    /\ parseOut[1].err = Some([kind |-> "missing key", what |-> {"hostname"}])

\* C10: delivery isolation. When TestNotifications has ended, every route has
\* had exactly one attempt to build its notifier and, where that succeeded,
\* exactly one Trigger call, whatever happened to the other routes.
C10_DeliveryIsolation ==
    /\ \A n \in DOMAIN notifyLog :
          notifyLog[n].attempts <= 1 /\ notifyLog[n].triggers <= 1
    /\ notifyPc \in {"returned", "panic"} =>
          \A n \in DOMAIN notifyLog :
             /\ notifyLog[n].attempts = 1
             /\ notifyLog[n].triggers = (IF notifyLog[n].built THEN 1 ELSE 0)

\* C11: SilenceUntil is safe under concurrency. Every time.Time that
\* silenced() reads from i.SilenceUntil is one that was assigned to it (the
\* value before or the value after a concurrent assignment), never words of
\* two different assignments.
C11_NoTearing ==
    observed # Nil => \E t \in written : observed[1] = TimeOf(t)

\* C12: barrier liveness. Under fair scheduling, with every Collect eventually
\* invoking its completion callback, each trust() that has started returns and
\* the verify() of that scan runs; and a running Collect can invoke its
\* callback whatever the other Collects are doing.
C12_BarrierLiveness ==
    /\ (pc \in {"spawn", "wait"}) ~> (pc = "verifying")
    /\ [][(pc \in {"spawn", "wait", "verify"}) =>
            (scans' = scans /\ (pc' \in {"spawn", "wait", "verify", "verifying"}))
         ]_vars
    /\ [](\A c \in Checkables : collect[c] = "running" => ENABLED CollectDone(c))

\* Every Service has invoked its callback while the Collect of the Host is
\* still running: trust() waits for the Host alone.
C12_Witness ==
    /\ pc = "wait" /\ Len(Services) = NumServices /\ barrier = 1
    /\ collect[Host] = "running"
    /\ \A k \in 1..Len(Services) : collect[Services[k]] = "done"

\* What a tunable's text stands for: its number, or -1 when ParseUint(text,
\* 10, 32) rejects it.
Numeral(text) ==
    CASE text = <<"2", "0">> -> 20
      [] text = <<"0", "0", "7">> -> 7
      [] text = <<"0">> -> 0
      [] text = <<"2", "1", "4", "7", "4", "8", "3", "6", "4", "7">> -> 2147483647
      [] OTHER -> -1

\* The value a loaded file gives a tunable with the documented default d.
Tunable(name, d) ==
    IF name \notin DOMAIN parseIn.Variables THEN d
    ELSE IF Numeral(parseIn.Variables[name]) < 0 THEN d
    ELSE Numeral(parseIn.Variables[name])

\* C13: numeric tunables. Without a configuration file the result is the
\* defaults {15, 300}; the tunables never decide whether loading fails (a file
\* whose routes are valid and of different Names loads whatever cycle_time and
\* deploy_length say); and a loaded file gives each tunable its default when it
\* is absent or unparsable and its value when it is parsable.
C13_NumericTunables ==
    parseOut # Nil =>
        LET out == parseOut[1] IN
        /\ parseIn.file = "absent" =>
              /\ out.err = Nil /\ out.config # Nil
              /\ out.config[1].Top = [CycleTime |-> 15, DeployLength |-> 300]
        /\ parseIn.file = "parsed" =>
              /\ ~DuplicateName /\ (\A n \in 1..Len(InRoutes) : SuppliesAll(n)) =>
                    out.err = Nil /\ out.config # Nil
              /\ out.config # Nil =>
                    /\ out.config[1].Top.CycleTime = Tunable("cycle_time", 15)
                    /\ out.config[1].Top.DeployLength = Tunable("deploy_length", 300)

\* A file with an unparsable cycle_time and a parsable deploy_length has been
\* loaded: CycleTime is the default and DeployLength the value given.
C13_Witness ==
    /\ parseOut # Nil /\ parseIn.file = "parsed"
    /\ "cycle_time" \in DOMAIN parseIn.Variables
    /\ parseIn.Variables["cycle_time"] = <<"2", "x">>
    /\ "deploy_length" \in DOMAIN parseIn.Variables
    /\ parseIn.Variables["deploy_length"] = <<"0", "0", "7">>
    /\ parseOut[1].err = Nil
    /\ parseOut[1].config[1].Top = [CycleTime |-> 15, DeployLength |-> 7]

\* C14: a socket-bind failure is fatal. The accept loop and the scan loop run
\* only with the control socket open; when openSocket fails the process has
\* exited with no Resolve, Collect, Verify, Reset or command executed, and an
\* exited process executes nothing afterwards.
C14_SocketBindFatal ==
    /\ [](/\ (pc # "off" \/ silencedAt >= 0) => Socket /\ main = "running"
          /\ main = "exited" =>
                /\ ~Socket /\ pc = "off" /\ resolved = {}
                /\ scans = 0 /\ trustReturns = 0 /\ verifyReturns = 0
                /\ \A c \in Checkables : collect[c] = "idle"
                /\ phaseLog = << >> /\ emitted = << >>
                /\ silencedAt = -1 /\ SilenceUntil = 0)
    /\ [][main = "exited" =>
            /\ main' = "exited"
            /\ UNCHANGED <<cfgVars, procVars, silenceVars, loopVars, trustVars, verifyVars>>
         ]_vars

\* openSocket failed at startup; the clock has reached MaxTime since, and
\* nothing has run.
C14_Witness ==
    /\ main = "exited" /\ ~Socket /\ now = MaxTime
    /\ pc = "off" /\ scans = 0 /\ silencedAt = -1

\* C15: no skip and no catch-up. The timer of the next scan is created when a
\* scan completes; a scan after the first starts only from that wait, CycleTime
\* seconds or more after the scan before it completed and after exactly one
\* timer, one scan at a time, however long the scan before it took; and once
\* CycleTime seconds have passed since a scan completed the next one can start.
C15_NoSkipNoCatchUp ==
    /\ [](/\ pc = "timer" => waits = verifyReturns - 1 /\ scans = verifyReturns
          /\ pc = "timer" /\ scans < MaxScans
                /\ now >= timerStart + GlobalConfig.Top.CycleTime =>
                ENABLED runLoopTimer)
    /\ [][/\ verifyReturns' # verifyReturns =>
               verifyReturns' = verifyReturns + 1 /\ pc' = "timer" /\ timerStart' = now
          /\ scans' # scans =>
               /\ scans' = scans + 1
               /\ scans >= 1 =>
                     /\ pc = "timer" /\ verifyReturns = scans
                     /\ waits' = waits + 1
                     /\ now >= timerStart + GlobalConfig.Top.CycleTime
          /\ pc = "timer" /\ pc' # "timer" => scans' = scans + 1
         ]_vars

\* The second scan is running: the first took CycleTime seconds or more, and
\* the second started CycleTime seconds or more after the first completed.
C15_Witness ==
    /\ scans = 2 /\ waits = 1 /\ prevOverran
    /\ pc \in {"spawn", "wait"} /\ elapsed = 0
    /\ now >= timerStart + GlobalConfig.Top.CycleTime

\* The place of a Checkable in the configured order: the Host, then the
\* Services in sequence order.
Position(c) == IF c = Host THEN 0 ELSE CHOOSE k \in 1..Len(Services) : Services[k] = c

\* The Verify calls of a non-silenced verify() that has visited n Checkables.
VerifyCalls(n) ==
    [j \in 1..n |-> [op |-> "Verify", c |-> IF j = 1 THEN Host ELSE Services[j - 1]]]

C17_SilenceKeepsCollecting ==
    /\ [](/\ mode = "reset" =>
                /\ trustReturns = scans
                /\ \A c \in Checkables : collect[c] = "done" /\ collectedIn[c] = scans
          /\ silenced /\ main = "running" /\ pc = "spawn" => ENABLED trustSpawn
          /\ silenced => \A c \in Checkables : collect[c] = "running" => ENABLED CollectDone(c))
    /\ [][/\ scans' # scans => pc' = "spawn" /\ barrier' = 1 + Len(Services)
          /\ pc = "verify" /\ pc' = "verifying" =>
                /\ trustReturns = scans
                /\ \A c \in Checkables : collectedIn[c] = scans
                /\ mode' \in {"reset", "verify"}
                /\ UNCHANGED <<trustVars, scans>>
         ]_vars

\* A silenced verify() is resetting in the second scan, whose trust() has
\* collected a sample from the Host and from each of NumServices Services.
C17_Witness ==
    /\ pc = "verifying" /\ mode = "reset" /\ silenced
    /\ scans = 2 /\ trustReturns = 2
    /\ Len(Services) = NumServices
    /\ \A c \in Checkables : collectedIn[c] = 2 /\ sample[c] \in SampleValues

\* What the scan path works on: the positions and counters of runLoop,
\* trust() with its Collects, and verify().
scanPath == <<loopVars, trustVars, verifyVars>>

\* C18: frame of the scan cycle. No step changes GlobalConfig or the Service
\* sequence; a step of the scan path leaves SilenceUntil as it is; and
\* SilenceUntil changes only in a step of the silence command, which sets it
\* to now + DeployLength and touches nothing of the scan path.
C18_ScanFrame ==
    [][/\ GlobalConfig' = GlobalConfig
       /\ Services' = Services
       /\ scanPath' # scanPath => SilenceUntil' = SilenceUntil
       /\ SilenceUntil' # SilenceUntil =>
             /\ SilenceUntil' = now + GlobalConfig.Top.DeployLength
             /\ silencedAt' = now
             /\ scanPath' = scanPath
      ]_vars

\* Two scans have completed since a silence command at time 0, and
\* SilenceUntil, GlobalConfig and the NumServices Services are as the command
\* and the configuration left them.
C18_Witness ==
    /\ pc = "timer" /\ verifyReturns = 2 /\ now > 0
    /\ silencedAt = 0 /\ SilenceUntil = GlobalConfig.Top.DeployLength
    /\ Len(Services) = NumServices
    /\ GlobalConfig.Top = [CycleTime |-> CycleTime, DeployLength |-> DeployLength]

\* C19: the silence decision is taken once per verification phase. verify()
\* takes its branch from silenced() as it begins and keeps it to the end: all
\* its calls are Reset or all are Verify, also when a command runs during the
\* phase; and the verify() that begins while the window of such a command is
\* open takes the Reset branch.
C19_DecisionOncePerPhase ==
    /\ [](pc = "verifying" =>
            /\ mode \in {"reset", "verify"}
            /\ \A n \in 1..Len(phaseLog) :
                  phaseLog[n].op = (IF mode = "reset" THEN "Reset" ELSE "Verify"))
    /\ [][/\ pc = "verifying" /\ pc' = "verifying" => mode' = mode
          /\ pc = "verify" /\ pc' = "verifying" =>
                /\ mode' = (IF now < SilenceUntil THEN "reset" ELSE "verify")
                /\ cmdPhase = "this"
                      /\ now < silencedAt + GlobalConfig.Top.DeployLength =>
                      mode' = "reset"
         ]_vars

\* The latest command ran during the verify() of the first scan, which had
\* taken the Verify branch; the verify() of the second scan, begun while that
\* command's window was open, has reset every Checkable.
C19_Witness ==
    /\ pc = "verifying" /\ mode = "reset" /\ cmdPhase = "previous"
    /\ scans = 2 /\ Len(Services) = NumServices
    /\ idx = Len(Services) + 1
    /\ \E c \in Checkables : rules[c][1].State = "Failed"

\* C20: TestNotifications completes without crashing. Whatever AlertRoutes
\* the loaded configuration holds (nil, none, one or more routes) and whatever
\* rules the Host has (none, as New() builds it, or some), the call does not
\* panic, and when it has returned every route has been attempted once.
C20_NotificationsComplete ==
    /\ notifyPc # "panic"
    /\ notifyPc = "returned" =>
          /\ pending = {}
          /\ \A n \in RangeRoutes(GlobalConfig.AlertRoutes) : notifyLog[n].attempts = 1

====
